---- MODULE Spec2Model ----
(***************************************************************************)
(* Product 360 layout manager (Product_360_Metadata_Manager.py).           *)
(*                                                                         *)
(* Strings are sequences of one-character strings, so that lower(), `in`   *)
(* (substring) and the ordering of strings are computed, not assumed.      *)
(* A filesystem path is a sequence of segments, each segment a string;     *)
(* PathStr gives the string the program sees.                              *)
(***************************************************************************)
EXTENDS Integers, Sequences, FiniteSets, TLC

(* ------------------------------ bounds --------------------------------- *)
\* longest directory path of the scanned tree, in segments ("C:" included)
MaxPathLen == 4
\* directories created, launcher markers placed and directories made
\* unreadable in the scanned tree
MaxSetup == 3

\* button handlers run, files rewritten and midnights passed while the
\* window is open
MaxSteps == 4
\* filesystem errors raised while the window is open
MaxFaults == 1
\* words a WORKSPACE_DIR value is written with, after the drive
MaxWords == 3

(* ------------------------------ strings -------------------------------- *)
UpperCase == <<"A", "B", "C", "D", "E", "F", "G", "H", "I", "J", "K", "L", "M", "N", "O", "P", "Q", "R", "S", "T", "U", "V", "W", "X", "Y", "Z">>
LowerCase == <<"a", "b", "c", "d", "e", "f", "g", "h", "i", "j", "k", "l", "m", "n", "o", "p", "q", "r", "s", "t", "u", "v", "w", "x", "y", "z">>

LowerChar(c) ==
  IF \E i \in 1..Len(UpperCase) : UpperCase[i] = c
  THEN LowerCase[CHOOSE i \in 1..Len(UpperCase) : UpperCase[i] = c]
  ELSE c

\* str.lower()
Lower(s) == [i \in 1..Len(s) |-> LowerChar(s[i])]

\* k in s  (substring test)
Contains(s, k) ==
  \E i \in 0..(Len(s) - Len(k)) : SubSeq(s, i + 1, i + Len(k)) = k

Sep == <<"\\">>

RECURSIVE JoinSegs(_)
JoinSegs(p) ==
  IF Len(p) = 0 THEN <<>>
  ELSE IF Len(p) = 1 THEN p[1]
  ELSE p[1] \o Sep \o JoinSegs(Tail(p))

\* the path string of os.path.join(root_dir, item); the drive root is 'C:\'
PathStr(p) == IF Len(p) = 1 THEN p[1] \o Sep ELSE JoinSegs(p)

\* os.path.basename
Basename(p) == IF Len(p) = 1 THEN <<>> ELSE p[Len(p)]

Parent(p) == SubSeq(p, 1, Len(p) - 1)

IsPrefix(a, b) == Len(a) <= Len(b) /\ SubSeq(b, 1, Len(a)) = a

(* ---------------------------- PathMatcher ------------------------------ *)
EXCLUDED_FOLDERS ==
  { <<"$", "r", "e", "c", "y", "c", "l", "e", ".", "b", "i", "n">>,
    <<"s", "y", "s", "t", "e", "m", " ", "v", "o", "l", "u", "m", "e", " ", "i", "n", "f", "o", "r", "m", "a", "t", "i", "o", "n">>,
    <<"w", "i", "n", "d", "o", "w", "s">>,
    <<"p", "r", "o", "g", "r", "a", "m", " ", "f", "i", "l", "e", "s">>,
    <<"p", "r", "o", "g", "r", "a", "m", " ", "f", "i", "l", "e", "s", " ", "(", "x", "8", "6", ")">>,
    <<"o", "n", "e", "d", "r", "i", "v", "e">>,
    <<"t", "e", "m", "p">>,
    <<"$", "w", "i", "n", "d", "o", "w", "s", ".", "~", "b", "t">> }

LIKELY_KEYWORDS ==
  { <<"i", "n", "f", "o", "r", "m", "a", "t", "i", "c", "a">>,
    <<"p", "i", "m">>,
    <<"p", "r", "o", "d", "u", "c", "t", " ", "3", "6", "0">> }

is_excluded_folder(path) ==
  LET path_lower == Lower(PathStr(path))
      folder_name == Lower(Basename(path))
  IN  \/ folder_name \in EXCLUDED_FOLDERS
      \/ \E excluded \in EXCLUDED_FOLDERS : Contains(path_lower, excluded)

is_likely_folder(path) ==
  LET path_lower == Lower(PathStr(path))
  IN  \E keyword \in LIKELY_KEYWORDS : Contains(path_lower, keyword)

(* ------------------------- the scanned filesystem ---------------------- *)
DriveC == <<"C", ":">>
UsersDir == <<"U", "s", "e", "r", "s">>

\* names a directory of the scanned tree may have
DirNames ==
  { <<"P", "I", "M">>,
    <<"a", "p", "p", "s">>,
    <<"T", "e", "m", "p">> }

\* names the logged-in user may have (%userprofile% is C:\Users\<name>)
UserNames == { <<"b", "o", "b">>, <<"T", "e", "m", "p", "o">> }

RootC == <<DriveC>>

VARIABLES
  dirs,            \* directories that exist (set of paths)
  markers,         \* directories that contain pim-desktop.cmd
  unreadable,      \* directories whose listing raises
  userprofile,     \* expandvars('%userprofile%')
  scanPc,          \* "build" while the tree is set up, "done" after autodetect
  install_folders, \* result of autodetect_environments
  listed,          \* directories os.listdir was called on
  tested,          \* directories tested for pim-desktop.cmd
  pc,              \* position of the main script: start, manual, auto, gui, exit
  environments,    \* the dict name -> workspace_dir, in insertion order
  registered,      \* every workspace_dir that was assigned into environments
  autoIdx,         \* position of the autodetect for loop in install_folders
  wsfs,            \* the files below each workspace directory
  archive,         \* the snapshot directories: <<env, date>> -> files
  today,           \* date.today(), as the day of the year 2024
  selected_env,    \* StringVar of the environment combobox
  selected_date,   \* StringVar of the date combobox
  date_values,     \* date_dropdown['values']
  atBackup,        \* workspace files as they were when <<env, date>> was last backed up
  fresh,           \* the <<env, date>> backed up last, while no workspace changed since
  last,            \* the last button handler that ran, its inputs and dialogs
  faults,          \* filesystem errors raised so far
  steps,           \* button handlers run, files rewritten and midnights passed so far
  candidate,       \* a WORKSPACE_DIR value: its segments, each a sequence of words
  category         \* what infer_environment returned for candidate, "" before the call

scanVars == <<dirs, markers, unreadable, userprofile, scanPc, install_folders, listed, tested>>

appVars == <<pc, environments, registered, autoIdx, wsfs, archive, today, selected_env,
             selected_date, date_values, atBackup, fresh, last, faults, steps>>

inferVars == <<candidate, category>>

vars == <<dirs, markers, unreadable, userprofile, scanPc, install_folders, listed, tested,
          pc, environments, registered, autoIdx, wsfs, archive, today, selected_env,
          selected_date, date_values, atBackup, fresh, last, faults, steps,
          candidate, category>>

RECURSIVE SetToSeq(_)
SetToSeq(S) ==
  IF S = {} THEN <<>>
  ELSE LET x == CHOOSE y \in S : TRUE IN <<x>> \o SetToSeq(S \ {x})

\* os.listdir(d) restricted to the entries that pass os.path.isdir,
\* in the (arbitrary but fixed) order the filesystem reports them
ListDir(d) == SetToSeq({p \in dirs : Len(p) = Len(d) + 1 /\ Parent(p) = d})

NoScan == [folders |-> <<>>, listed |-> {}, tested |-> {}]

Merge(a, b) ==
  [folders |-> a.folders \o b.folders,
   listed |-> a.listed \cup b.listed,
   tested |-> a.tested \cup b.tested]

RECURSIVE find_install_folders(_, _, _)
RECURSIVE ScanItems(_, _, _)

\* the loop body with the marker test made before the exclusion test
ScanItemsMarkerFirst(items, depth, prioritize_likely) ==
  IF Len(items) = 0 THEN NoScan
  ELSE
    LET path == Head(items)
        rest == ScanItems(Tail(items), depth, prioritize_likely)
        here ==
          IF path \in markers
          THEN [folders |-> <<path>>, listed |-> {}, tested |-> {path}]
          ELSE IF is_excluded_folder(path) THEN [NoScan EXCEPT !.tested = {path}]
          ELSE IF depth > 0 /\ (~prioritize_likely \/ is_likely_folder(path))
               THEN Merge([NoScan EXCEPT !.tested = {path}],
                          find_install_folders(path, depth - 1, prioritize_likely))
          ELSE [NoScan EXCEPT !.tested = {path}]
    IN  Merge(here, rest)

\* the body of the for loop of find_install_folders, over the items left
ScanItems(items, depth, prioritize_likely) ==
  IF Len(items) = 0 THEN NoScan
  ELSE
    LET path == Head(items)
        rest == ScanItems(Tail(items), depth, prioritize_likely)
        here ==
          IF is_excluded_folder(path) THEN NoScan
          ELSE IF path \in markers
               THEN [folders |-> <<path>>, listed |-> {}, tested |-> {path}]
          ELSE IF depth > 0 /\ prioritize_likely /\ is_likely_folder(path)
               THEN Merge([NoScan EXCEPT !.tested = {path}],
                          find_install_folders(path, depth - 1, prioritize_likely))
          ELSE IF depth > 0 /\ ~prioritize_likely
               THEN Merge([NoScan EXCEPT !.tested = {path}],
                          find_install_folders(path, depth - 1, prioritize_likely))
          ELSE [NoScan EXCEPT !.tested = {path}]
    IN  Merge(here, rest)

\* find_install_folders with the failed listing of a subdirectory ending the
\* scan of its parent as well
find_install_folders_uncaught(root_dir, depth, prioritize_likely) ==
  IF \/ root_dir \notin dirs
     \/ root_dir \in unreadable
     \/ \E p \in dirs \cap unreadable : Len(p) = Len(root_dir) + 1 /\ Parent(p) = root_dir
  THEN NoScan
  ELSE Merge([NoScan EXCEPT !.listed = {root_dir}],
             ScanItems(ListDir(root_dir), depth, prioritize_likely))

find_install_folders(root_dir, depth, prioritize_likely) ==
  IF root_dir \notin dirs \/ root_dir \in unreadable
  THEN NoScan    \* os.listdir raises, the except clause returns the empty list
  ELSE Merge([NoScan EXCEPT !.listed = {root_dir}],
             ScanItems(ListDir(root_dir), depth, prioritize_likely))

root_dirs == <<RootC, userprofile>>

RECURSIVE ScanRoots(_)
ScanRoots(roots) ==
  IF Len(roots) = 0 THEN NoScan
  ELSE Merge(Merge(find_install_folders(Head(roots), 3, TRUE),
                   find_install_folders(Head(roots), 1, FALSE)),
             ScanRoots(Tail(roots)))

autodetect_environments == ScanRoots(root_dirs)

(* --------------------- building a tree and scanning it ----------------- *)
Roots == {RootC, userprofile}

ScanInit ==
  /\ userprofile \in {<<DriveC, UsersDir, u>> : u \in UserNames}
  /\ dirs \in {{RootC}, {RootC, <<DriveC, UsersDir>>, userprofile}}
  /\ markers = {}
  /\ unreadable = {}
  /\ scanPc = "build"
  /\ install_folders = <<>>
  /\ listed = {}
  /\ tested = {}
  /\ pc = "scan"
  /\ environments = <<>>
  /\ registered = {}
  /\ autoIdx = 1
  /\ wsfs = <<>>
  /\ archive = <<>>
  /\ today = 1
  /\ selected_env = ""
  /\ selected_date = <<>>
  /\ date_values = <<>>
  /\ atBackup = <<>>
  /\ fresh = <<>>
  /\ last = <<>>
  /\ faults = 0
  /\ steps = 0
  /\ candidate = <<>>
  /\ category = ""

Created == {p \in dirs : p \notin {RootC, <<DriveC, UsersDir>>, userprofile}}

\* changes made to the scanned tree so far
Prepared == Cardinality(Created) + Cardinality(markers) + Cardinality(unreadable)

Mkdir(parent, name) ==
  /\ scanPc = "build"
  /\ parent \in dirs
  /\ Len(parent) < MaxPathLen
  /\ Prepared < MaxSetup
  /\ parent \o <<name>> \notin dirs
  /\ dirs' = dirs \cup {parent \o <<name>>}
  /\ UNCHANGED <<markers, unreadable, userprofile, scanPc, install_folders, listed, tested>>
  /\ UNCHANGED appVars
  /\ UNCHANGED inferVars

PlaceMarker(d) ==
  /\ scanPc = "build"
  /\ d \in dirs \ markers
  /\ Prepared < MaxSetup
  /\ markers' = markers \cup {d}
  /\ UNCHANGED <<dirs, unreadable, userprofile, scanPc, install_folders, listed, tested>>
  /\ UNCHANGED appVars
  /\ UNCHANGED inferVars

DenyListing(d) ==
  /\ scanPc = "build"
  /\ d \in dirs \ unreadable
  /\ Prepared < MaxSetup
  /\ unreadable' = unreadable \cup {d}
  /\ UNCHANGED <<dirs, markers, userprofile, scanPc, install_folders, listed, tested>>
  /\ UNCHANGED appVars
  /\ UNCHANGED inferVars

Autodetect ==
  /\ scanPc = "build"
  /\ LET r == autodetect_environments
     IN  /\ install_folders' = r.folders
         /\ listed' = r.listed
         /\ tested' = r.tested
  /\ scanPc' = "done"
  /\ UNCHANGED <<dirs, markers, unreadable, userprofile>>
  /\ UNCHANGED appVars
  /\ UNCHANGED inferVars

ScanNext ==
  \/ \E parent \in dirs, name \in DirNames : Mkdir(parent, name)
  \/ \E d \in dirs : PlaceMarker(d)
  \/ \E d \in dirs : DenyListing(d)
  \/ Autodetect

SpecScan == ScanInit /\ [][ScanNext]_vars

(* ------------------------- snapshot date stamps ------------------------ *)
Digits == <<"0", "1", "2", "3", "4", "5", "6", "7", "8", "9">>

\* the decimal digits of n, zero-padded to width w
RECURSIVE Pad(_, _)
Pad(n, w) == IF w = 0 THEN <<>> ELSE Pad(n \div 10, w - 1) \o <<Digits[(n % 10) + 1]>>

MonthDays == <<31, 29, 31, 30, 31, 30, 31, 31, 30, 31, 30, 31>>

RECURSIVE MonthDay(_, _)
MonthDay(n, m) ==
  IF n <= MonthDays[m] THEN [year |-> 2024, month |-> m, day |-> n]
  ELSE MonthDay(n - MonthDays[m], m + 1)

\* the calendar date of the n-th day of 2024
FromOrdinal(n) == MonthDay(n, 1)

\* date.isoformat(): YYYY-MM-DD
isoformat(d) == Pad(d.year, 4) \o <<"-">> \o Pad(d.month, 2) \o <<"-">> \o Pad(d.day, 2)

Today == isoformat(FromOrdinal(today))

\* the order of the characters of a date stamp ('-' sorts before the digits)
CharOrder == <<"-">> \o Digits

CharCode(c) == CHOOSE i \in 1..Len(CharOrder) : CharOrder[i] = c

\* a < b for strings
RECURSIVE StrLess(_, _)
StrLess(a, b) ==
  IF Len(b) = 0 THEN FALSE
  ELSE IF Len(a) = 0 THEN TRUE
  ELSE IF Head(a) = Head(b) THEN StrLess(Tail(a), Tail(b))
  ELSE CharCode(Head(a)) < CharCode(Head(b))

\* sorted(S), ascending
RECURSIVE SortAscending(_)
SortAscending(S) ==
  IF S = {} THEN <<>>
  ELSE LET m == CHOOSE x \in S : \A y \in S : ~StrLess(y, x)
       IN  <<m>> \o SortAscending(S \ {m})

\* list.sort(reverse=True)
RECURSIVE SortReverse(_)
SortReverse(S) ==
  IF S = {} THEN <<>>
  ELSE LET m == CHOOSE x \in S : \A y \in S : ~StrLess(x, y)
       IN  <<m>> \o SortReverse(S \ {m})

(* --------------------------- workspace files --------------------------- *)
\* the keys of source_files_relative, in the order the loops visit them
source_files_relative ==
  <<"org.eclipse.ui.workbench.prefs", "workbench.xmi", "savedTableConfigs.xml">>

FileNames == {source_files_relative[i] : i \in 1..Len(source_files_relative)}

FileIdx(f) == CHOOSE i \in 1..Len(source_files_relative) : source_files_relative[i] = f

NoFiles == [f \in FileNames |-> 0]

\* a workspace: whether .metadata exists, whether the directory that holds
\* each file exists, and the content of each file (0: absent)
EmptyWs == [meta |-> FALSE, pdir |-> [f \in FileNames |-> FALSE], file |-> NoFiles]

FullWs(c) == [meta |-> TRUE, pdir |-> [f \in FileNames |-> TRUE], file |-> [f \in FileNames |-> c]]

(* -------------------- the machine the program runs on ------------------ *)
WsProdA == <<DriveC, <<"P", "r", "o", "d", "A">>>>
WsProdB == <<DriveC, <<"p", "r", "o", "d", "B">>>>
WsQA == <<DriveC, <<"Q", "A", "1">>>>
WsDev == <<DriveC, <<"d", "e", "v">>>>
WsGone == <<DriveC, <<"g", "o", "n", "e">>>>

\* the workspace directories that exist
Workspaces == {WsProdA, WsProdB, WsQA, WsDev}

InstallA == <<DriveC, <<"P", "I", "M">>, <<"A">>>>
InstallB == <<DriveC, <<"P", "I", "M">>, <<"B">>>>
InstallQ == <<DriveC, <<"a", "p", "p", "s">>>>
InstallX == <<DriveC, <<"P", "I", "M">>, <<"X">>>>
InstallD == <<DriveC, <<"T", "e", "m", "p">>, <<"D">>>>

AppDirs ==
  {RootC, <<DriveC, <<"P", "I", "M">>>>, InstallA, InstallB, InstallQ, InstallX,
   <<DriveC, <<"T", "e", "m", "p">>>>, InstallD}

AppMarkers == {InstallA, InstallB, InstallQ, InstallX, InstallD}

\* the lines of pim-desktop.cmd in each installation: the variable a SET
\* line assigns and the text after the first '='
Launcher(folder) ==
  CASE folder = InstallA -> <<[name |-> "JAVA_HOME", value |-> WsGone],
                              [name |-> "WORKSPACE_DIR", value |-> WsProdA]>>
    [] folder = InstallB -> <<[name |-> "WORKSPACE_DIR", value |-> WsProdB]>>
    [] folder = InstallQ -> <<[name |-> "WORKSPACE_DIR", value |-> WsQA],
                              [name |-> "WORKSPACE_DIR", value |-> WsProdA]>>
    [] folder = InstallD -> <<[name |-> "WORKSPACE_DIR", value |-> WsDev]>>
    [] folder = InstallX -> <<[name |-> "WORKSPACE_DIR", value |-> WsGone],
                              [name |-> "WORKSPACE_DIR", value |-> WsQA]>>
    [] OTHER -> <<>>

None == <<>>

(* --------------------------- WorkspaceResolver ------------------------- *)
RECURSIVE FirstWorkspaceLine(_)
FirstWorkspaceLine(lines) ==
  IF Len(lines) = 0 THEN None
  ELSE IF Head(lines).name = "WORKSPACE_DIR"
       THEN IF Head(lines).value \in Workspaces THEN Head(lines).value ELSE None
  ELSE FirstWorkspaceLine(Tail(lines))

get_workspace_dir(install_folder) ==
  IF install_folder \notin markers THEN None
  ELSE FirstWorkspaceLine(Launcher(install_folder))

\* infer_environment with the 'dev' test placed before the 'qa' test
infer_environment_dev_first(workspace_dir) ==
  LET path_lower == Lower(PathStr(workspace_dir))
  IN  IF Contains(path_lower, <<"p", "r", "o", "d">>) THEN "Prod"
      ELSE IF Contains(path_lower, <<"d", "e", "v">>)
              \/ Contains(path_lower, <<"p", "i", "m", "d", "e", "v">>) THEN "Dev"
      ELSE IF Contains(path_lower, <<"q", "a">>)
              \/ Contains(path_lower, <<"p", "i", "m", "q", "a">>) THEN "QA"
      ELSE "Custom"

infer_environment(workspace_dir) ==
  LET path_lower == Lower(PathStr(workspace_dir))
  IN  IF Contains(path_lower, <<"p", "r", "o", "d">>) THEN "Prod"
      ELSE IF Contains(path_lower, <<"q", "a">>)
              \/ Contains(path_lower, <<"p", "i", "m", "q", "a">>) THEN "QA"
      ELSE IF Contains(path_lower, <<"d", "e", "v">>)
              \/ Contains(path_lower, <<"p", "i", "m", "d", "e", "v">>) THEN "Dev"
      ELSE "Custom"

(* --------------------- classifying WORKSPACE_DIR values ---------------- *)
\* the words a WORKSPACE_DIR value is written with
Words ==
  { <<"p", "r", "o", "d">>, <<"P", "r">>, <<"O", "D">>,
    <<"q", "a">>, <<"Q">>, <<"A">>,
    <<"d", "e", "v">>, <<"D", "E", "V">>,
    <<"p", "i", "m">>, <<"w", "s">> }

RECURSIVE Concat(_)
Concat(ws) == IF Len(ws) = 0 THEN <<>> ELSE ws[1] \o Concat(Tail(ws))

\* the path the words of c spell
WorkspacePath(c) == [i \in 1..Len(c) |-> Concat(c[i])]

RECURSIVE WordCount(_)
WordCount(c) == IF Len(c) = 0 THEN 0 ELSE Len(c[1]) + WordCount(Tail(c))

InferInit ==
  /\ userprofile = <<DriveC, UsersDir, <<"b", "o", "b">>>>
  /\ dirs = {RootC}
  /\ markers = {}
  /\ unreadable = {}
  /\ scanPc = "done"
  /\ install_folders = <<>>
  /\ listed = {}
  /\ tested = {}
  /\ pc = "infer"
  /\ environments = <<>>
  /\ registered = {}
  /\ autoIdx = 1
  /\ wsfs = <<>>
  /\ archive = <<>>
  /\ today = 1
  /\ selected_env = ""
  /\ selected_date = <<>>
  /\ date_values = <<>>
  /\ atBackup = <<>>
  /\ fresh = <<>>
  /\ last = <<>>
  /\ faults = 0
  /\ steps = 0
  /\ candidate = <<<<DriveC>>>>
  /\ category = ""

\* the launcher's WORKSPACE_DIR value continues with one more word
WriteWord(w) ==
  /\ pc = "infer"
  /\ category = ""
  /\ Len(candidate) > 1
  /\ WordCount(candidate) <= MaxWords
  /\ candidate' = [candidate EXCEPT ![Len(candidate)] = Append(@, w)]
  /\ UNCHANGED category
  /\ UNCHANGED scanVars
  /\ UNCHANGED appVars

\* the launcher's WORKSPACE_DIR value continues with a new path segment
WriteSegment(w) ==
  /\ pc = "infer"
  /\ category = ""
  /\ WordCount(candidate) <= MaxWords
  /\ candidate' = Append(candidate, <<w>>)
  /\ UNCHANGED category
  /\ UNCHANGED scanVars
  /\ UNCHANGED appVars

\* env = infer_environment(workspace_dir)
Classify ==
  /\ pc = "infer"
  /\ category = ""
  /\ category' = infer_environment(WorkspacePath(candidate))
  /\ UNCHANGED candidate
  /\ UNCHANGED scanVars
  /\ UNCHANGED appVars

InferNext ==
  \/ \E w \in Words : WriteWord(w)
  \/ \E w \in Words : WriteSegment(w)
  \/ Classify

SpecInfer == InferInit /\ [][InferNext]_vars

(* ------------------------- the environments dict ----------------------- *)
Keys(d) == [i \in 1..Len(d) |-> d[i].key]

HasKey(d, k) == \E i \in 1..Len(d) : d[i].key = k

Get(d, k) == d[CHOOSE i \in 1..Len(d) : d[i].key = k].value

\* d[k] = v : a new key goes last, an existing key keeps its place
DictSet(d, k, v) ==
  IF HasKey(d, k)
  THEN [i \in 1..Len(d) |-> IF d[i].key = k THEN [key |-> k, value |-> v] ELSE d[i]]
  ELSE Append(d, [key |-> k, value |-> v])

(* ------------------------------ dialogs -------------------------------- *)
\* names: the logical files the text of the dialog names
Dlg(kind, title, text) ==
  [kind |-> kind, title |-> title, text |-> text, answer |-> FALSE, names |-> {}]

Asked(title, answer) ==
  [kind |-> "askyesno", title |-> title, text |-> "", answer |-> answer, names |-> {}]

\* showerror(title, f"An error occurred:\n{str(e)}") for the OSError of a
\* failed shutil.copy2, whose text carries the path of the one file it failed on
CopyError(title, filename) ==
  [kind |-> "showerror", title |-> title, text |-> "An error occurred", answer |-> FALSE,
   names |-> {filename}]

NoBackupsFound == <<"No backups found">>
SelectAnEnvironment == <<"Select an environment">>

(* ----------------------------- BackupArchive --------------------------- *)
SnapshotDates(arch, env) == {k[2] : k \in {x \in DOMAIN arch : x[1] = env}}

Put(arch, key, snap) ==
  [k \in DOMAIN arch \cup {key} |-> IF k = key THEN snap ELSE arch[k]]

Without(fn, key) == [k \in DOMAIN fn \ {key} |-> fn[k]]

\* update_dates with the listing left in ascending order
update_dates_ascending(env, arch) ==
  IF env # ""
  THEN IF SnapshotDates(arch, env) # {}
       THEN LET dates == SortAscending(SnapshotDates(arch, env))
            IN  [values |-> dates, selected |-> dates[1]]
       ELSE [values |-> <<>>, selected |-> NoBackupsFound]
  ELSE [values |-> <<>>, selected |-> SelectAnEnvironment]

\* what update_dates puts into the date combobox for env
update_dates(env, arch) ==
  IF env # ""
  THEN IF SnapshotDates(arch, env) # {}
       THEN LET dates == SortReverse(SnapshotDates(arch, env))
            IN  [values |-> dates, selected |-> dates[1]]
       ELSE [values |-> <<>>, selected |-> NoBackupsFound]
  ELSE [values |-> <<>>, selected |-> SelectAnEnvironment]

\* ioFail names the step that raises: 0 none, i in 1..3 the copy of the i-th
\* file (raised before anything is written), 4 os.makedirs of the snapshot
MkdirFails == 4

\* backup_files that starts the environment's archive folder afresh
backup_files_replacing(env, ioFail) ==
  LET source_base == Get(environments, env)
      dated_folder == <<env, Today>>
      kept == {k \in DOMAIN archive : k[1] # env \/ k = dated_folder}
      old == IF dated_folder \in DOMAIN archive THEN archive[dated_folder] ELSE NoFiles
      n == IF ioFail = 0 THEN Len(source_files_relative) ELSE ioFail - 1
      snap == [f \in FileNames |->
                 IF FileIdx(f) <= n /\ wsfs[source_base].file[f] # 0
                 THEN wsfs[source_base].file[f]
                 ELSE old[f]]
      copied == Put([k \in kept |-> archive[k]], dated_folder, snap)
  IN  IF ioFail = MkdirFails
      THEN [archive |-> archive, values |-> date_values, selected |-> selected_date,
            dialogs |-> <<Dlg("showerror", "Backup Error", "An error occurred")>>]
      ELSE IF ioFail # 0
      THEN [archive |-> copied, values |-> date_values, selected |-> selected_date,
            dialogs |-> <<CopyError("Backup Error", source_files_relative[ioFail])>>]
      ELSE [archive |-> copied,
            values |-> update_dates(env, copied).values,
            selected |-> update_dates(env, copied).selected,
            dialogs |-> <<Dlg("showinfo", "Backup Complete", "Files backed up to")>>]

\* backup_files with a missing source file treated as an error
backup_files_strict(env, ioFail) ==
  LET source_base == Get(environments, env)
      dated_folder == <<env, Today>>
      old == IF dated_folder \in DOMAIN archive THEN archive[dated_folder] ELSE NoFiles
      missing == {i \in 1..Len(source_files_relative) :
                    wsfs[source_base].file[source_files_relative[i]] = 0}
      stop == IF ioFail # 0 THEN ioFail
              ELSE IF missing # {} THEN CHOOSE i \in missing : \A j \in missing : i <= j
              ELSE 0
      n == IF stop = 0 THEN Len(source_files_relative) ELSE stop - 1
      snap == [f \in FileNames |->
                 IF FileIdx(f) <= n /\ wsfs[source_base].file[f] # 0
                 THEN wsfs[source_base].file[f]
                 ELSE old[f]]
      copied == Put(archive, dated_folder, snap)
  IN  IF stop # 0
      THEN [archive |-> IF stop = MkdirFails THEN archive ELSE copied,
            values |-> date_values, selected |-> selected_date,
            dialogs |-> <<Dlg("showerror", "Backup Error", "An error occurred")>>]
      ELSE [archive |-> copied,
            values |-> update_dates(env, copied).values,
            selected |-> update_dates(env, copied).selected,
            dialogs |-> <<Dlg("showinfo", "Backup Complete", "Files backed up to")>>]

backup_files(env, ioFail) ==
  IF env = ""
  THEN [archive |-> archive, values |-> date_values, selected |-> selected_date,
        dialogs |-> <<Dlg("showerror", "Error", "Please select an environment.")>>]
  ELSE
    LET source_base == Get(environments, env)
        dated_folder == <<env, Today>>
        old == IF dated_folder \in DOMAIN archive THEN archive[dated_folder] ELSE NoFiles
        n == IF ioFail = 0 THEN Len(source_files_relative) ELSE ioFail - 1
        snap == [f \in FileNames |->
                   IF FileIdx(f) <= n /\ wsfs[source_base].file[f] # 0
                   THEN wsfs[source_base].file[f]
                   ELSE old[f]]
        copied == Put(archive, dated_folder, snap)
    IN  IF ioFail = MkdirFails
        THEN [archive |-> archive, values |-> date_values, selected |-> selected_date,
              dialogs |-> <<Dlg("showerror", "Backup Error", "An error occurred")>>]
        ELSE IF ioFail # 0
        THEN [archive |-> copied, values |-> date_values, selected |-> selected_date,
              dialogs |-> <<CopyError("Backup Error", source_files_relative[ioFail])>>]
        ELSE [archive |-> copied,
              values |-> update_dates(env, copied).values,
              selected |-> update_dates(env, copied).selected,
              dialogs |-> <<Dlg("showinfo", "Backup Complete", "Files backed up to")>>]

\* restore_files that copies the snapshot into every workspace
restore_files_everywhere(env, date, ioFail) ==
  LET restore_folder == <<env, date>>
  IN  IF restore_folder \notin DOMAIN archive
      THEN [ws |-> wsfs,
            dialogs |-> <<Dlg("showerror", "Restore Error", "No backup found")>>]
      ELSE
        LET snap == archive[restore_folder]
            n == IF ioFail = 0 THEN Len(source_files_relative) ELSE ioFail - 1
            made(f) == snap[f] # 0 /\ FileIdx(f) <= n + (IF ioFail = 0 THEN 0 ELSE 1)
            done(f) == snap[f] # 0 /\ FileIdx(f) <= n
            new(old) == [meta |-> old.meta \/ \E f \in FileNames : made(f),
                         pdir |-> [f \in FileNames |-> old.pdir[f] \/ made(f)],
                         file |-> [f \in FileNames |-> IF done(f) THEN snap[f] ELSE old.file[f]]]
        IN  [ws |-> [w \in DOMAIN wsfs |-> new(wsfs[w])],
             dialogs |-> IF ioFail = 0
                         THEN <<Dlg("showinfo", "Restore Complete", "Files restored from")>>
                         ELSE <<CopyError("Restore Error", source_files_relative[ioFail])>>]

\* restore_files without the test that the snapshot directory exists
restore_files_unchecked(env, date, ioFail) ==
  LET source_base == Get(environments, env)
      restore_folder == <<env, date>>
      snap == IF restore_folder \in DOMAIN archive THEN archive[restore_folder] ELSE NoFiles
      n == IF ioFail = 0 THEN Len(source_files_relative) ELSE ioFail - 1
      old == wsfs[source_base]
      made(f) == snap[f] # 0 /\ FileIdx(f) <= n + (IF ioFail = 0 THEN 0 ELSE 1)
      done(f) == snap[f] # 0 /\ FileIdx(f) <= n
      new == [meta |-> old.meta \/ \E f \in FileNames : made(f),
              pdir |-> [f \in FileNames |-> old.pdir[f] \/ made(f)],
              file |-> [f \in FileNames |-> IF done(f) THEN snap[f] ELSE old.file[f]]]
  IN  [ws |-> [wsfs EXCEPT ![source_base] = new],
       dialogs |-> IF ioFail = 0
                   THEN <<Dlg("showinfo", "Restore Complete", "Files restored from")>>
                   ELSE <<Dlg("showerror", "Restore Error", "An error occurred")>>]

\* restore_files that leaves a destination file that exists alone
restore_files_keeping(env, date, ioFail) ==
  LET source_base == Get(environments, env)
      restore_folder == <<env, date>>
  IN  IF restore_folder \notin DOMAIN archive
      THEN [ws |-> wsfs,
            dialogs |-> <<Dlg("showerror", "Restore Error", "No backup found")>>]
      ELSE
        LET snap == archive[restore_folder]
            n == IF ioFail = 0 THEN Len(source_files_relative) ELSE ioFail - 1
            old == wsfs[source_base]
            made(f) == snap[f] # 0 /\ FileIdx(f) <= n + (IF ioFail = 0 THEN 0 ELSE 1)
            done(f) == snap[f] # 0 /\ FileIdx(f) <= n /\ old.file[f] = 0
            new == [meta |-> old.meta \/ \E f \in FileNames : made(f),
                    pdir |-> [f \in FileNames |-> old.pdir[f] \/ made(f)],
                    file |-> [f \in FileNames |-> IF done(f) THEN snap[f] ELSE old.file[f]]]
        IN  [ws |-> [wsfs EXCEPT ![source_base] = new],
             dialogs |-> IF ioFail = 0
                         THEN <<Dlg("showinfo", "Restore Complete", "Files restored from")>>
                         ELSE <<Dlg("showerror", "Restore Error", "An error occurred")>>]

\* ioFail: 0 none, i in 1..3 shutil.copy2 of the i-th file raises, after
\* os.makedirs created the directories of its destination
restore_files(env, date, ioFail) ==
  IF env = "" \/ date = <<>>
  THEN [ws |-> wsfs,
        dialogs |-> <<Dlg("showerror", "Error", "Please select an environment and a date.")>>]
  ELSE
    LET source_base == Get(environments, env)
        restore_folder == <<env, date>>
    IN  IF restore_folder \notin DOMAIN archive
        THEN [ws |-> wsfs,
              dialogs |-> <<Dlg("showerror", "Restore Error", "No backup found")>>]
        ELSE
          LET snap == archive[restore_folder]
              n == IF ioFail = 0 THEN Len(source_files_relative) ELSE ioFail - 1
              old == wsfs[source_base]
              made(f) == snap[f] # 0 /\ FileIdx(f) <= n + (IF ioFail = 0 THEN 0 ELSE 1)
              done(f) == snap[f] # 0 /\ FileIdx(f) <= n
              new == [meta |-> old.meta \/ \E f \in FileNames : made(f),
                      pdir |-> [f \in FileNames |-> old.pdir[f] \/ made(f)],
                      file |-> [f \in FileNames |-> IF done(f) THEN snap[f] ELSE old.file[f]]]
          IN  [ws |-> [wsfs EXCEPT ![source_base] = new],
               dialogs |-> IF ioFail = 0
                           THEN <<Dlg("showinfo", "Restore Complete", "Files restored from")>>
                           ELSE <<CopyError("Restore Error", source_files_relative[ioFail])>>]

\* clear_metadata that deletes whatever the answer is
clear_metadata_unasked(env, response, ioFail) ==
  LET source_base == Get(environments, env)
      old == wsfs[source_base]
      question == Asked("Confirm Clear Metadata", response)
  IN  IF ~old.meta
      THEN [ws |-> wsfs,
            dialogs |-> <<Dlg("showinfo", "Clear Metadata", "No .metadata folder found.")>>]
      ELSE IF ioFail # 0
      THEN [ws |-> wsfs,
            dialogs |-> <<question, Dlg("showerror", "Clear Error", "An error occurred")>>]
      ELSE [ws |-> [wsfs EXCEPT ![source_base] = EmptyWs],
            dialogs |-> <<question,
                          Dlg("showinfo", "Clear Complete", "The .metadata folder has been deleted.")>>]

\* response: the answer to the confirmation; ioFail: 1 when shutil.rmtree
\* raises on the first entry it visits, 0 when it succeeds
clear_metadata(env, response, ioFail) ==
  IF env = ""
  THEN [ws |-> wsfs, dialogs |-> <<Dlg("showerror", "Error", "Please select an environment.")>>]
  ELSE
    LET source_base == Get(environments, env)
        old == wsfs[source_base]
        question == Asked("Confirm Clear Metadata", response)
    IN  IF ~old.meta
        THEN [ws |-> wsfs,
              dialogs |-> <<Dlg("showinfo", "Clear Metadata", "No .metadata folder found.")>>]
        ELSE IF ~response
        THEN [ws |-> wsfs, dialogs |-> <<question>>]
        ELSE IF ioFail # 0
        THEN [ws |-> wsfs,
              dialogs |-> <<question, Dlg("showerror", "Clear Error", "An error occurred")>>]
        ELSE [ws |-> [wsfs EXCEPT ![source_base] = EmptyWs],
              dialogs |-> <<question,
                            Dlg("showinfo", "Clear Complete", "The .metadata folder has been deleted.")>>]

(* ---------------------------- the main script -------------------------- *)
NoOp == [op |-> "none", env |-> "", date |-> <<>>, ioFail |-> 0, dialogs |-> <<>>]

\* environments[env] = workspace_dir for one installation folder
Register(envs, folder) ==
  LET workspace_dir == get_workspace_dir(folder)
  IN  IF workspace_dir # None
      THEN DictSet(envs, infer_environment(workspace_dir), workspace_dir)
      ELSE envs

\* the for loop over the autodetected folders, run to its end
RECURSIVE RegisterAll(_, _)
RegisterAll(folders, envs) ==
  IF Len(folders) = 0 THEN envs
  ELSE RegisterAll(Tail(folders), Register(envs, Head(folders)))

Machine ==
  /\ dirs = AppDirs
  /\ markers = AppMarkers
  /\ unreadable = {}
  /\ userprofile = <<DriveC, UsersDir, <<"b", "o", "b">>>>
  /\ scanPc = "app"
  /\ wsfs = [w \in Workspaces |-> FullWs(1)]
  /\ archive = <<>>
  /\ today = 9
  /\ atBackup = <<>>
  /\ fresh = <<>>
  /\ last = NoOp
  /\ faults = 0
  /\ steps = 0
  /\ candidate = <<>>
  /\ category = ""

\* the program is started
StartupInit ==
  /\ Machine
  /\ install_folders = <<>>
  /\ listed = {}
  /\ tested = {}
  /\ pc = "start"
  /\ environments = <<>>
  /\ registered = {}
  /\ autoIdx = 1
  /\ selected_env = ""
  /\ selected_date = <<>>
  /\ date_values = <<>>

\* the window as create_gui opens it after the environments were autodetected
Init ==
  /\ Machine
  /\ install_folders = autodetect_environments.folders
  /\ listed = autodetect_environments.listed
  /\ tested = autodetect_environments.tested
  /\ pc = "gui"
  /\ environments = RegisterAll(install_folders, <<>>)
  /\ registered = {environments[i].value : i \in 1..Len(environments)}
  /\ autoIdx = Len(install_folders) + 1
  /\ selected_env = Keys(environments)[1]
  /\ date_values = update_dates(selected_env, archive).values
  /\ selected_date = update_dates(selected_env, archive).selected

\* the end of the main script: exit without environments, else create_gui,
\* which selects the first environment and fills the date combobox
OpenWindow(envs) ==
  IF envs = <<>>
  THEN /\ pc' = "exit"
       /\ UNCHANGED <<selected_env, selected_date, date_values>>
  ELSE /\ pc' = "gui"
       /\ selected_env' = Keys(envs)[1]
       /\ date_values' = update_dates(Keys(envs)[1], archive).values
       /\ selected_date' = update_dates(Keys(envs)[1], archive).selected

\* the answer to "Would you like to manually define the install folder?"
DefineEnvironments(choice) ==
  /\ pc = "start"
  /\ IF choice
     THEN /\ pc' = "manual"
          /\ UNCHANGED <<install_folders, listed, tested>>
     ELSE /\ pc' = "auto"
          /\ install_folders' = autodetect_environments.folders
          /\ listed' = autodetect_environments.listed
          /\ tested' = autodetect_environments.tested
  /\ UNCHANGED inferVars
  /\ UNCHANGED <<dirs, markers, unreadable, userprofile, scanPc, environments, registered,
                 autoIdx, wsfs, archive, today, selected_env, selected_date, date_values,
                 atBackup, fresh, last, faults, steps>>

\* one round of the manual loop: folder is what the directory chooser
\* returned (None when cancelled), more the answer to "Add another environment?"
AddManually(folder, more) ==
  /\ pc = "manual"
  /\ LET workspace_dir == IF folder = None THEN None ELSE get_workspace_dir(folder)
     IN  IF workspace_dir # None
         THEN /\ environments' = Register(environments, folder)
              /\ registered' = registered \cup {workspace_dir}
              /\ IF more
                 THEN UNCHANGED <<pc, selected_env, selected_date, date_values>>
                 ELSE OpenWindow(environments')
         ELSE /\ UNCHANGED <<environments, registered>>
              /\ OpenWindow(environments)
  /\ UNCHANGED inferVars
  /\ UNCHANGED <<dirs, markers, unreadable, userprofile, scanPc, install_folders, listed, tested,
                 autoIdx, wsfs, archive, today, atBackup, fresh, last, faults, steps>>

\* one round of the for loop over the autodetected folders
AutoRegister ==
  /\ pc = "auto"
  /\ autoIdx <= Len(install_folders)
  /\ LET workspace_dir == get_workspace_dir(install_folders[autoIdx])
     IN  IF workspace_dir # None
         THEN /\ environments' = Register(environments, install_folders[autoIdx])
              /\ registered' = registered \cup {workspace_dir}
         ELSE UNCHANGED <<environments, registered>>
  /\ autoIdx' = autoIdx + 1
  /\ UNCHANGED inferVars
  /\ UNCHANGED <<dirs, markers, unreadable, userprofile, scanPc, install_folders, listed, tested,
                 pc, wsfs, archive, today, selected_env, selected_date, date_values,
                 atBackup, fresh, last, faults, steps>>

AutoDone ==
  /\ pc = "auto"
  /\ autoIdx > Len(install_folders)
  /\ OpenWindow(environments)
  /\ UNCHANGED inferVars
  /\ UNCHANGED <<dirs, markers, unreadable, userprofile, scanPc, install_folders, listed, tested,
                 environments, registered, autoIdx, wsfs, archive, today, atBackup, fresh, last,
                 faults, steps>>

(* ------------------------------ the window ----------------------------- *)
Selected == Get(environments, selected_env)

\* the user picks an environment: on_env_select
OnEnvSelect(env) ==
  /\ pc = "gui"
  /\ HasKey(environments, env)
  /\ selected_env' = env
  /\ date_values' = update_dates(env, archive).values
  /\ selected_date' = update_dates(env, archive).selected
  /\ last' = [NoOp EXCEPT !.op = "select", !.env = env]
  /\ UNCHANGED inferVars
  /\ UNCHANGED <<dirs, markers, unreadable, userprofile, scanPc, install_folders, listed, tested,
                 pc, environments, registered, autoIdx, wsfs, archive, today, atBackup, fresh,
                 faults, steps>>

\* the user picks one of the dates the combobox offers
OnDateSelect(d) ==
  /\ pc = "gui"
  /\ \E i \in 1..Len(date_values) : date_values[i] = d
  /\ d # selected_date
  /\ selected_date' = d
  /\ last' = NoOp
  /\ UNCHANGED inferVars
  /\ UNCHANGED <<dirs, markers, unreadable, userprofile, scanPc, install_folders, listed, tested,
                 pc, environments, registered, autoIdx, wsfs, archive, today, selected_env,
                 date_values, atBackup, fresh, faults, steps>>

\* "Backup Now"
BackupNow(ioFail) ==
  /\ pc = "gui"
  /\ steps < MaxSteps
  /\ steps' = steps + 1
  /\ ioFail # 0 => faults < MaxFaults
  /\ ioFail \in 1..Len(source_files_relative) =>
       wsfs[Selected].file[source_files_relative[ioFail]] # 0
  /\ faults' = IF ioFail # 0 THEN faults + 1 ELSE faults
  /\ LET r == backup_files(selected_env, ioFail)
     IN  /\ archive' = r.archive
         /\ date_values' = r.values
         /\ selected_date' = r.selected
         /\ last' = [op |-> "backup", env |-> selected_env, date |-> Today, ioFail |-> ioFail,
                     dialogs |-> r.dialogs]
         /\ atBackup' = IF ioFail = 0
                        THEN Put(atBackup, <<selected_env, Today>>, wsfs[Selected].file)
                        ELSE Without(atBackup, <<selected_env, Today>>)
         /\ fresh' = IF ioFail = 0 THEN <<selected_env, Today>> ELSE <<>>
  /\ UNCHANGED inferVars
  /\ UNCHANGED <<dirs, markers, unreadable, userprofile, scanPc, install_folders, listed, tested,
                 pc, environments, registered, autoIdx, wsfs, today, selected_env>>

\* "Restore Selected"
RestoreSelected(ioFail) ==
  /\ pc = "gui"
  /\ steps < MaxSteps
  /\ steps' = steps + 1
  /\ faults' = IF ioFail # 0 THEN faults + 1 ELSE faults
  /\ ioFail # 0 =>
       /\ faults < MaxFaults
       /\ <<selected_env, selected_date>> \in DOMAIN archive
       /\ archive[<<selected_env, selected_date>>][source_files_relative[ioFail]] # 0
  /\ LET r == restore_files(selected_env, selected_date, ioFail)
     IN  /\ wsfs' = r.ws
         /\ last' = [op |-> "restore", env |-> selected_env, date |-> selected_date,
                     ioFail |-> ioFail, dialogs |-> r.dialogs]
  /\ fresh' = IF wsfs' = wsfs THEN fresh ELSE <<>>
  /\ UNCHANGED inferVars
  /\ UNCHANGED <<dirs, markers, unreadable, userprofile, scanPc, install_folders, listed, tested,
                 pc, environments, registered, autoIdx, archive, today, selected_env,
                 selected_date, date_values, atBackup>>

\* "Clear Metadata"
ClearMetadata(response, ioFail) ==
  /\ pc = "gui"
  /\ steps < MaxSteps
  /\ steps' = steps + 1
  /\ faults' = IF ioFail # 0 THEN faults + 1 ELSE faults
  /\ ioFail # 0 => faults < MaxFaults /\ response /\ wsfs[Selected].meta
  /\ LET r == clear_metadata(selected_env, response, ioFail)
     IN  /\ wsfs' = r.ws
         /\ last' = [op |-> "clear", env |-> selected_env, date |-> <<>>,
                     ioFail |-> ioFail, dialogs |-> r.dialogs]
  /\ fresh' = IF wsfs' = wsfs THEN fresh ELSE <<>>
  /\ UNCHANGED inferVars
  /\ UNCHANGED <<dirs, markers, unreadable, userprofile, scanPc, install_folders, listed, tested,
                 pc, environments, registered, autoIdx, archive, today, selected_env,
                 selected_date, date_values, atBackup>>

\* a content no workspace file and no snapshot file has (0: no such file)
NewContent ==
  1 + Cardinality({c \in 1..(MaxSteps + 1) :
         \/ \E w \in Workspaces, f \in FileNames : wsfs[w].file[f] = c
         \/ \E k \in DOMAIN archive, f \in FileNames : archive[k][f] = c})

\* the application rewrites one of its configuration files
ApplicationWrites(w, f) ==
  /\ pc = "gui"
  /\ steps < MaxSteps
  /\ steps' = steps + 1
  /\ \E i \in 1..Len(environments) : environments[i].value = w
  /\ wsfs' = [wsfs EXCEPT ![w] = [meta |-> TRUE,
                                  pdir |-> [@.pdir EXCEPT ![f] = TRUE],
                                  file |-> [@.file EXCEPT ![f] = NewContent]]]
  /\ fresh' = <<>>
  /\ last' = NoOp
  /\ UNCHANGED inferVars
  /\ UNCHANGED <<dirs, markers, unreadable, userprofile, scanPc, install_folders, listed, tested,
                 pc, environments, registered, autoIdx, archive, today, selected_env,
                 selected_date, date_values, atBackup, faults>>

\* midnight passes
NextDay ==
  /\ pc = "gui"
  /\ steps < MaxSteps
  /\ steps' = steps + 1
  /\ today' = today + 1
  /\ last' = NoOp
  /\ UNCHANGED inferVars
  /\ UNCHANGED <<dirs, markers, unreadable, userprofile, scanPc, install_folders, listed, tested,
                 pc, environments, registered, autoIdx, wsfs, archive, selected_env,
                 selected_date, date_values, atBackup, fresh, faults>>

StartupNext ==
  \/ \E choice \in BOOLEAN : DefineEnvironments(choice)
  \/ \E folder \in dirs \cup {None}, more \in BOOLEAN : AddManually(folder, more)
  \/ AutoRegister
  \/ AutoDone

SpecStartup == StartupInit /\ [][StartupNext]_vars

Next ==
  \/ \E env \in {"Prod", "QA", "Dev", "Custom"} : OnEnvSelect(env)
  \/ \E d \in SnapshotDates(archive, selected_env) : OnDateSelect(d)
  \/ \E ioFail \in 0..MkdirFails : BackupNow(ioFail)
  \/ \E ioFail \in 0..Len(source_files_relative) : RestoreSelected(ioFail)
  \/ \E response \in BOOLEAN, ioFail \in 0..1 : ClearMetadata(response, ioFail)
  \/ \E w \in Workspaces, f \in FileNames : ApplicationWrites(w, f)
  \/ NextDay

Spec == Init /\ [][Next]_vars

(* ------------------------- discovery: claims --------------------------- *)
Range(q) == {q[i] : i \in 1..Len(q)}

\* the directories on the way from the drive root down to d, d included
Ancestors(d) == {SubSeq(d, 1, n) : n \in 1..Len(d)}

\* C6 as stated: after a scan no directory that is_excluded_folder rejects
\* has been listed or tested for the marker, and no returned installation
\* is an excluded directory or lies beneath one.
C6_NeverEntersExcluded ==
  scanPc = "done" =>
    /\ \A d \in listed \cup tested : ~is_excluded_folder(d)
    /\ \A f \in Range(install_folders) :
         \A a \in Ancestors(f) : ~is_excluded_folder(a)

\* C6 amended: the same, for every directory other than the scan roots
\* themselves, which are listed without being passed to is_excluded_folder.
C6_NeverEntersExcludedBelowRoot ==
  scanPc = "done" =>
    /\ \A d \in (listed \ Roots) \cup tested : ~is_excluded_folder(d)
    /\ \A f \in Range(install_folders) :
         \A a \in Ancestors(f) : ~is_excluded_folder(a)

\* a scan listed a directory that holds an excluded directory with a
\* launcher in it, and passed it by
C6_Witness ==
  /\ scanPc = "done"
  /\ \E d \in dirs \ Roots :
       /\ is_excluded_folder(d)
       /\ Parent(d) \in listed
       /\ d \in markers
       /\ d \notin tested

\* d is an installation a scan from some root has to report: below the root
\* by at most the levels the depth=3 scan covers, nothing excluded on the
\* way, no launcher and no unreadable directory above it
Reportable(d) ==
  \E r \in Roots \cap dirs :
    /\ IsPrefix(r, d) /\ r # d
    /\ Len(d) - Len(r) <= 4
    /\ d \in markers
    /\ \A a \in Ancestors(d) :
         Len(a) > Len(r) => ~is_excluded_folder(a)
    /\ \A a \in Ancestors(d) \ {d} :
         Len(a) >= Len(r) => (a \notin markers \/ a = r) /\ a \notin unreadable

\* C7 as stated: autodetect returns every installation within the depth
\* bound, whether or not its ancestors match a likely keyword.
C7_LikelyNeverRejects ==
  scanPc = "done" =>
    \A d \in markers : Reportable(d) => d \in Range(install_folders)

\* d holds a launcher and the scan of root r with the given depth and
\* prioritize_likely reaches it: it is at most depth + 1 levels below r, and
\* on the way down nothing is excluded, nothing holds a launcher itself,
\* every listing succeeds and (when prioritized) every directory is likely
Located(r, d, depth, prioritize_likely) ==
  /\ r \in dirs
  /\ d \in markers
  /\ IsPrefix(r, d) /\ r # d
  /\ Len(d) - Len(r) <= depth + 1
  /\ \A a \in Ancestors(d) : Len(a) > Len(r) => ~is_excluded_folder(a)
  /\ \A a \in Ancestors(d) \ {d} :
       /\ Len(a) >= Len(r) => a \notin unreadable
       /\ Len(a) > Len(r) => a \notin markers /\ (prioritize_likely => is_likely_folder(a))

\* C12: a directory whose listing fails costs the scan only what lies beneath
\* it: autodetect returns exactly the installations its four scans reach
\* through readable directories, and the scan of a root that does not exist
\* returns nothing.
C12_UnreadableSkipped ==
  scanPc = "done" =>
    /\ Range(install_folders) =
         {d \in markers : \E r \in Roots : Located(r, d, 3, TRUE) \/ Located(r, d, 1, FALSE)}
    /\ \A r \in Roots \ dirs :
         /\ find_install_folders(r, 3, TRUE).folders = <<>>
         /\ find_install_folders(r, 1, FALSE).folders = <<>>

\* a scan met a directory it could not list and returned the installation
\* next to it
C12_Witness ==
  /\ scanPc = "done"
  /\ \E u \in unreadable \ Roots, f \in Range(install_folders) :
       /\ Parent(u) = Parent(f)
       /\ u \in tested
       /\ u \notin markers

(* ------------------------- registration: claims ------------------------ *)
\* C1 as stated: every workspace that was registered is still the value of
\* an entry of environments, and no two entries have the same name.
C1_RegistrationsKept ==
  /\ \A w \in registered : \E i \in 1..Len(environments) : environments[i].value = w
  /\ \A i, j \in 1..Len(environments) :
       environments[i].key = environments[j].key => i = j

(* --------------------------- the window: claims ------------------------ *)
\* the step is a run of the button handler op
Ran(op) == steps' = steps + 1 /\ last'.op = op

Questions(dialogs) == {i \in 1..Len(dialogs) : dialogs[i].kind = "askyesno"}

Confirmed(dialogs) == \E i \in Questions(dialogs) : dialogs[i].answer

SnapshotExists == <<selected_env, selected_date>> \in DOMAIN archive

\* C2 as stated: a restore from an existing snapshot into a workspace that
\* holds at least one of the destination files asks for confirmation once,
\* and changes no workspace file unless the answer is yes.
C2_RestoreAsksBeforeOverwrite ==
  [][(/\ Ran("restore")
      /\ SnapshotExists
      /\ \E f \in FileNames : wsfs[Selected].file[f] # 0)
     => /\ Cardinality(Questions(last'.dialogs)) = 1
        /\ ~Confirmed(last'.dialogs) => wsfs' = wsfs]_vars

\* C3: after a restore that completed, every file that existed when the
\* restored <<env, date>> was last backed up has the content it had then
\* (whether or not the workspace changed in between).
C3_RoundTrip ==
  (/\ last.op = "restore"
   /\ last.ioFail = 0
   /\ <<last.env, last.date>> \in DOMAIN atBackup)
  => \A f \in FileNames :
       atBackup[<<last.env, last.date>>][f] # 0 =>
         wsfs[Get(environments, last.env)].file[f] = atBackup[<<last.env, last.date>>][f]

\* a restore right after the backup of the same date, nothing changed in
\* between, of a workspace that held all three files with some content
\* the application wrote
C3_Witness ==
  /\ last.op = "restore"
  /\ last.ioFail = 0
  /\ fresh = <<last.env, last.date>>
  /\ \A f \in FileNames : atBackup[fresh][f] # 0
  /\ \E f \in FileNames : atBackup[fresh][f] > 1

\* C4: a restore whose date names no snapshot directory of the environment
\* reports that no backup was found and changes nothing in any workspace
\* (no directory, no file) nor in the archive.
C4_RestoreMissingSnapshot ==
  [][(Ran("restore") /\ ~SnapshotExists)
     => /\ last'.dialogs = <<Dlg("showerror", "Restore Error", "No backup found")>>
        /\ wsfs' = wsfs
        /\ archive' = archive]_vars

\* a restore asked for an environment that has no snapshot, while another
\* environment has one
C4_Witness ==
  /\ last.op = "restore"
  /\ last.date = NoBackupsFound
  /\ last.dialogs = <<Dlg("showerror", "Restore Error", "No backup found")>>
  /\ archive # <<>>

\* C5 as stated: a backup on a day that already has a snapshot directory
\* of the environment adds no directory, and the files of that directory
\* are then the files this call wrote: those of the workspace, no other.
C5_SecondBackupWins ==
  [][(Ran("backup") /\ last'.ioFail = 0 /\ <<selected_env, Today>> \in DOMAIN archive)
     => /\ DOMAIN archive' = DOMAIN archive
        /\ archive'[<<selected_env, Today>>] = wsfs[Selected].file]_vars

\* C8: clear_metadata asks nothing and changes nothing when there is no
\* .metadata directory; it asks once when there is one, changes nothing
\* when the answer is no, and leaves no .metadata directory when the answer
\* is yes and the deletion raises no error.
C8_ClearOnlyAfterConfirmation ==
  [][Ran("clear")
     => /\ ~wsfs[Selected].meta =>
             /\ wsfs' = wsfs
             /\ last'.dialogs = <<Dlg("showinfo", "Clear Metadata", "No .metadata folder found.")>>
        /\ wsfs[Selected].meta =>
             /\ Questions(last'.dialogs) = {1}
             /\ ~Confirmed(last'.dialogs) => wsfs' = wsfs /\ Len(last'.dialogs) = 1
             /\ Confirmed(last'.dialogs) /\ last'.ioFail = 0 =>
                  wsfs' = [wsfs EXCEPT ![Selected] = EmptyWs]]_vars

\* a confirmed clear emptied a workspace
C8_Witness ==
  /\ last.op = "clear"
  /\ Confirmed(last.dialogs)
  /\ last.ioFail = 0
  /\ wsfs[Get(environments, last.env)] = EmptyWs

\* C9: a backup during which no filesystem error is raised reports
\* completion whatever subset of the three files exists, the snapshot
\* directory of the day exists afterwards, every file that exists is in it
\* with the content of the workspace, and the entry of every file that
\* does not exist is left as it was.
C9_BackupToleratesMissing ==
  [][(Ran("backup") /\ last'.ioFail = 0)
     => /\ last'.dialogs = <<Dlg("showinfo", "Backup Complete", "Files backed up to")>>
        /\ <<selected_env, Today>> \in DOMAIN archive'
        /\ \A f \in FileNames :
             archive'[<<selected_env, Today>>][f] =
               IF wsfs[Selected].file[f] # 0 THEN wsfs[Selected].file[f]
               ELSE IF <<selected_env, Today>> \in DOMAIN archive
                    THEN archive[<<selected_env, Today>>][f]
                    ELSE 0]_vars

\* a completed backup of a workspace that held some but not all files
C9_Witness ==
  /\ last.op = "backup"
  /\ last.ioFail = 0
  /\ \E f, g \in FileNames :
       /\ wsfs[Get(environments, last.env)].file[f] = 0
       /\ wsfs[Get(environments, last.env)].file[g] # 0
       /\ archive[<<last.env, last.date>>][f] = 0
       /\ archive[<<last.env, last.date>>][g] # 0

DigitValue(c) == (CHOOSE i \in 1..Len(Digits) : Digits[i] = c) - 1

\* the calendar day a date stamp names, as the number YYYYMMDD
DateNumber(s) ==
  LET v(i) == DigitValue(s[i])
  IN  (v(1) * 1000 + v(2) * 100 + v(3) * 10 + v(4)) * 10000
        + (v(6) * 10 + v(7)) * 100 + (v(9) * 10 + v(10))

\* C10: whenever update_dates has filled the date combobox (an environment
\* was selected, or a backup completed), its values are exactly the snapshot
\* directories of the selected environment, each once, later dates first;
\* they are empty when there is none; and after a backup the first value is
\* the latest date and is the selected date.
C10_ListingNewestFirst ==
  (last.op = "select" \/ (last.op = "backup" /\ last.ioFail = 0))
  => /\ Range(date_values) = SnapshotDates(archive, selected_env)
     /\ Len(date_values) = Cardinality(SnapshotDates(archive, selected_env))
     /\ \A i, j \in 1..Len(date_values) :
          i < j => DateNumber(date_values[i]) > DateNumber(date_values[j])
     /\ SnapshotDates(archive, selected_env) = {} =>
          date_values = <<>> /\ selected_date = NoBackupsFound
     /\ last.op = "backup" =>
          /\ selected_date = date_values[1]
          /\ \A d \in SnapshotDates(archive, selected_env) :
               DateNumber(d) <= DateNumber(selected_date)

\* a backup completed for an environment that has snapshots of several days
C10_Witness ==
  /\ last.op = "backup"
  /\ last.ioFail = 0
  /\ Len(date_values) >= 2
  /\ selected_date = Today


\* c is the letter k in either case
SameLetter(c, k) ==
  \/ c = k
  \/ \E i \in 1..Len(LowerCase) : LowerCase[i] = k /\ UpperCase[i] = c

\* keyword k occurs in s, whatever the case of the letters of s
ContainsAnyCase(s, k) ==
  \E i \in 0..(Len(s) - Len(k)) : \A j \in 1..Len(k) : SameLetter(s[i + j], k[j])

HasProdKeyword(s) == ContainsAnyCase(s, <<"p", "r", "o", "d">>)
HasQAKeyword(s) ==
  ContainsAnyCase(s, <<"q", "a">>) \/ ContainsAnyCase(s, <<"p", "i", "m", "q", "a">>)
HasDevKeyword(s) ==
  ContainsAnyCase(s, <<"d", "e", "v">>) \/ ContainsAnyCase(s, <<"p", "i", "m", "d", "e", "v">>)

\* C11: the category of a workspace path is the first of Prod, QA, Dev whose
\* keyword the path contains in any letter case, and Custom when it contains none
C11_FirstMatchWins ==
  category # "" =>
    LET s == PathStr(WorkspacePath(candidate))
    IN  /\ HasProdKeyword(s) => category = "Prod"
        /\ ~HasProdKeyword(s) /\ HasQAKeyword(s) => category = "QA"
        /\ ~HasProdKeyword(s) /\ ~HasQAKeyword(s) /\ HasDevKeyword(s) => category = "Dev"
        /\ ~HasProdKeyword(s) /\ ~HasQAKeyword(s) /\ ~HasDevKeyword(s) => category = "Custom"

\* a path with a QA keyword in capitals and a development keyword was classified QA
C11_Witness ==
  LET s == PathStr(WorkspacePath(candidate))
  IN  /\ category = "QA"
      /\ HasDevKeyword(s)
      /\ ~Contains(s, <<"q", "a">>)

\* the files of the snapshot that a restore failing at its ioFail-th file
\* has not copied
NotYetCopied(snap, ioFail) == {f \in FileNames : snap[f] # 0 /\ FileIdx(f) >= ioFail}

\* C13 as stated: a restore that fails after it copied at least one file
\* shows an error naming every file it has not copied, the files copied
\* before the failure have the snapshot's content and the others their
\* content of before the call
C13_PartialRestoreNamesRest ==
  [][Ran("restore") /\ last'.ioFail # 0
       /\ (\E g \in FileNames :
            archive[<<selected_env, selected_date>>][g] # 0 /\ FileIdx(g) < last'.ioFail)
     => LET snap == archive[<<selected_env, selected_date>>]
            rest == NotYetCopied(snap, last'.ioFail)
        IN  /\ Len(last'.dialogs) = 1
            /\ last'.dialogs[1].kind = "showerror"
            /\ last'.dialogs[1].names = rest
            /\ \A f \in FileNames :
                 wsfs'[Selected].file[f] =
                   IF f \in rest \/ snap[f] = 0 THEN wsfs[Selected].file[f] ELSE snap[f]]_vars

\* C14: no step removes a snapshot directory, and every step that is not a
\* backup (restore, clear, a new listing of the dates, ...) leaves every
\* snapshot directory and its files as they were
C14_SnapshotsNeverDeleted ==
  [][/\ \A k \in DOMAIN archive : k \in DOMAIN archive'
     /\ ~Ran("backup") => archive' = archive]_vars

\* a restore completed for an environment that has snapshots of two days
C14_Witness ==
  /\ last.op = "restore"
  /\ last.dialogs = <<Dlg("showinfo", "Restore Complete", "Files restored from")>>
  /\ Cardinality({k \in DOMAIN archive : k[1] = last.env}) >= 2

\* C15 as stated: after a backup that completed, today's snapshot directory
\* holds exactly the files the workspace held when the backup ran, with
\* their contents
C15_SnapshotMirrorsWorkspace ==
  [][(Ran("backup") /\ last'.dialogs = <<Dlg("showinfo", "Backup Complete", "Files backed up to")>>)
     => /\ <<selected_env, Today>> \in DOMAIN archive'
        /\ \A f \in FileNames :
             archive'[<<selected_env, Today>>][f] = wsfs[Selected].file[f]]_vars

\* C16: a backup, restore or clear of the selected environment leaves the
\* files of every other workspace and the snapshots of every other
\* environment as they were and adds no snapshot under another name; a
\* backup changes no workspace file; a restore changes nothing of the
\* selected workspace but the files the snapshot holds, and not the registry
C16_IsolatedPerEnvironment ==
  [][(Ran("backup") \/ Ran("restore") \/ Ran("clear"))
     => /\ \A w \in DOMAIN wsfs : w # Selected => wsfs'[w] = wsfs[w]
        /\ \A k \in DOMAIN archive :
             k[1] # selected_env => k \in DOMAIN archive' /\ archive'[k] = archive[k]
        /\ \A k \in DOMAIN archive' \ DOMAIN archive : k[1] = selected_env
        /\ Ran("backup") => wsfs' = wsfs
        /\ Ran("restore") =>
             /\ environments' = environments
             /\ \A f \in FileNames :
                  wsfs'[Selected].file[f] # wsfs[Selected].file[f] =>
                    /\ <<selected_env, selected_date>> \in DOMAIN archive
                    /\ wsfs'[Selected].file[f] = archive[<<selected_env, selected_date>>][f]]_vars

\* a restore completed while another environment has a snapshot of its own
\* and a workspace whose files differ from those of the restored one
C16_Witness ==
  /\ last.op = "restore"
  /\ last.dialogs = <<Dlg("showinfo", "Restore Complete", "Files restored from")>>
  /\ \E k \in DOMAIN archive :
       /\ k[1] # last.env
       /\ HasKey(environments, k[1])
       /\ Get(environments, k[1]) # Get(environments, last.env)
       /\ wsfs[Get(environments, k[1])] # wsfs[Get(environments, last.env)]
====
